---- MODULE Spec2Model ----
(***************************************************************************)
(* RealTalk: microphone capture, adaptive voice-activity detection,       *)
(* streaming recognition and translation.                                 *)
(*                                                                         *)
(* The model follows one SpeechTranslation session:                        *)
(*   SpeechTranslation.__init__  -> SpeechRecognizer.__init__              *)
(*        (calibrate_audio, then setup_model) -> Translator()              *)
(*   SpeechTranslation.start     -> recognize_from_mic (the capture loop)  *)
(*                                                                         *)
(* Numbers.  The program computes on floats.  Every float is represented   *)
(* here as an integer count of 1/Scale units (Scale = 400), which makes    *)
(* the mean of 8 energies, the mean of 10 history entries and the factor   *)
(* 1.2 exact; the standard deviation is rounded down to 1/80.              *)
(***************************************************************************)
EXTENDS Integers, Sequences, FiniteSets, TLC

VARIABLES
    pc,                   \* control position of the session
    selected_lang,        \* SpeechRecognizer.selected_lang
    noise_level,          \* SpeechRecognizer.noise_level (the calibrated profile)
    cal_p,                \* calibrate_audio's PyAudio instance p
    cal_stream,           \* calibrate_audio's input stream
    audio,                \* SpeechRecognizer.audio (PyAudio instance)
    stream,               \* recognize_from_mic's input stream
    audio_level_history,  \* deque(maxlen=10) of recent frame energies
    last_partial,         \* recognize_from_mic local
    is_speaking,          \* recognize_from_mic local
    silence_frames,       \* recognize_from_mic local
    speech_frames,        \* recognize_from_mic local
    adaptive_threshold,   \* recognize_from_mic local
    raw_data,             \* energy of the frame just read (NoFrame: none)
    recognized_text,      \* SpeechTranslation.start local
    translated,           \* texts handed to Translator.translate_text
    error,                \* the exception that ended a routine ("none": none)
    \* ---- observation (history) variables: written, never read, by the program
    nframes,              \* frames read successfully in this capture loop
    arrived,              \* energies of the most recent frames, oldest first
    above_run,            \* consecutive above-threshold frames up to now
    below_run,            \* consecutive not-above-threshold frames up to now
    last_limit,           \* silence_limit computed for the latest frame (0: none)
    was_speaking,         \* is_speaking before the latest frame was classified
    resp,                 \* the recognizer's answer for the latest frame
    prev_partial,         \* last_partial before that answer was handled
    emitted,              \* transcript events printed for the latest frame
    finals,               \* texts of all Final events printed in the session
    forwarded,            \* frames handed to the recognizer in this loop
    audio_errors,         \* "Audio error" lines printed in this loop
    terminations,         \* audio.terminate() calls made on self.audio
    used_after_release,   \* self.audio.open was called on a terminated handle
    partials,             \* texts of the Partial events since the latest Final event
    last_event,           \* the latest transcript event printed in this loop
    \* ---- Translator.translate_text: the latest call
    tr_text,              \* argument text, a sequence of characters
    tr_src,               \* argument src_lang
    tr_tgt,               \* argument tgt_lang
    submitted,            \* texts handed to the tokenizer by the call
    notices,              \* truncation notices printed by the call
    tr_result,            \* what the call returned
    tr_raised,            \* the exception the call raised to its caller
    tr_failure,           \* the library call that failed during the call
    \* ---- SpeechRecognizer.process_audio: the latest call, sample by sample
    noise_profile,        \* noise_level['noise_profile']
    audio_array,          \* the int16 samples of the frame
    lowpassed,            \* output of signal.lfilter
    filtered_audio,       \* filtered_audio when the normalization starts
    norm_factor,          \* the gain applied by the normalization
    processed_audio,      \* the int16 samples returned
    \* ---- a second run of the capture loop, on the same frames and the same
    \* recognizer answers, after a calibration of its own
    twin_level,           \* its noise_level
    twin_history,         \* its audio_level_history
    twin_speaking,        \* its is_speaking
    twin_silence_frames,  \* its silence_frames
    twin_speech_frames,   \* its speech_frames
    twin_threshold,       \* its adaptive_threshold
    twin_last_partial,    \* its last_partial
    twin_emitted,         \* transcript events it printed for its latest frame
    twin_frames           \* frames it has handed to the recognizer

resVars == <<cal_p, cal_stream, audio, stream>>
vadVars == <<audio_level_history, is_speaking, silence_frames, speech_frames,
             adaptive_threshold>>
vadObs  == <<arrived, above_run, below_run, last_limit, was_speaking>>
recObs  == <<resp, prev_partial, emitted, finals, forwarded, partials,
             last_event>>
trVars  == <<tr_text, tr_src, tr_tgt, submitted, notices, tr_result, tr_raised,
             tr_failure>>
paVars  == <<noise_profile, audio_array, lowpassed, filtered_audio, norm_factor,
             processed_audio>>
callVars == <<trVars, paVars>>
twinVars == <<twin_level, twin_history, twin_speaking, twin_silence_frames,
              twin_speech_frames, twin_threshold, twin_last_partial,
              twin_emitted, twin_frames>>
vars == <<pc, selected_lang, noise_level, cal_p, cal_stream, audio, stream,
          audio_level_history, last_partial, is_speaking, silence_frames,
          speech_frames, adaptive_threshold, raw_data, recognized_text,
          translated, error, nframes, arrived, above_run, below_run,
          last_limit, was_speaking, resp, prev_partial, emitted, finals,
          forwarded, audio_errors, terminations, used_after_release,
          partials, last_event, tr_text, tr_src, tr_tgt, submitted, notices,
          tr_result, tr_raised, tr_failure, noise_profile, audio_array, lowpassed,
          filtered_audio, norm_factor, processed_audio, twin_level,
          twin_history, twin_speaking, twin_silence_frames,
          twin_speech_frames, twin_threshold, twin_last_partial,
          twin_emitted, twin_frames>>

----------------------------------------------------------------------------
(* Bounds of the model *)

\* frames read per capture loop in the session specification
MaxFrames == 3
\* length of the longest text handed to translate_text
MaxTextLen == 640
\* frames read per capture loop in the VAD specification
MaxVadFrames == 19
\* "Audio error" lines per capture loop
MaxAudioErrors == 1
\* frames the device delivers before every read fails
MaxDevFrames == 3
\* frames read per capture loop in the specification of loud and mute frames
MaxLowFrames == 12
MaxPairFrames == 3
\* samples per frame in the sample-level specification (the program: 4096)
FrameLen == 32

(* Program constants *)

CalFrames == 8
HistoryLen == 10
MinThreshold == 300
DebounceFrames == 2
SilenceFloor == 5
SilenceCap == 15
TruncateAt == 500
Int16Max == 32767
GainCap == 3

\* 1/Scale is the unit of every energy: the window mean (/8), the history
\* mean (/10) and the factor 1.2 (6/5) are then whole numbers
Scale == CalFrames * HistoryLen * 5

(* Inputs *)

\* frame energies (mean absolute amplitude) the calibration window may hold
CalLevels == {0, 400}
\* frame energies the capture loop may read
FrameLevels == {0, 180, 320}
\* frame energies of the calibration specification
WideCalLevels == {0, 80, 120, 400}
\* calibration windows and frame energies of the VAD specification: a quiet
\* room (ambient 100, deviation 20) and a steady hum (ambient 250)
VadWindows == { [i \in 1..CalFrames |-> IF i % 2 = 0 THEN 80 ELSE 120],
               [i \in 1..CalFrames |-> 250] }
VadLevels == {180, 320}
\* frame energies that pull the rolling average far below the ambient level
LowLevels == {0, 320}
\* the scenario: a quiet room, three loud frames, sixteen faint ones
ScenarioWindow == [i \in 1..CalFrames |-> IF i % 2 = 0 THEN 80 ELSE 120]
ScenarioFrames == <<310, 320, 330>> \o [i \in 1..SilenceCap + 1 |-> 50]
ScenarioFrame(n) == IF n \in 1..Len(ScenarioFrames) THEN {ScenarioFrames[n]} ELSE {}
Texts == {"namaste", "hello"}
Langs == {"hi", "en", "fr"}

None == "None"
NoFrame == -1
NoProfile == [ambient_level |-> -1, noise_std |-> -1,
              speech_threshold |-> -1, vad_threshold |-> -1]
NoResp == [final |-> FALSE, text |-> None]
NoEvent == [kind |-> None, text |-> ""]

----------------------------------------------------------------------------
(* Arithmetic *)

Max(a, b) == IF a >= b THEN a ELSE b
Min(a, b) == IF a <= b THEN a ELSE b

RECURSIVE SumSeq(_)
SumSeq(s) == IF s = <<>> THEN 0 ELSE Head(s) + SumSeq(Tail(s))

RECURSIVE SqrtSearch(_, _, _)
\* the largest r in lo..hi with r*r <= x
SqrtSearch(x, lo, hi) ==
    IF lo >= hi THEN lo
    ELSE LET mid == (lo + hi + 1) \div 2
         IN IF mid * mid <= x THEN SqrtSearch(x, mid, hi)
            ELSE SqrtSearch(x, lo, mid - 1)

ISqrt(x) == SqrtSearch(x, 0, 46340)

----------------------------------------------------------------------------
(* calibrate_audio: the statistics of the calibration window *)

\* np.abs(audio_array).mean() of each frame, in 1/Scale units
NoiseLevelsOf(w) == [i \in 1..Len(w) |-> Scale * w[i]]

\* np.mean(noise_levels)
MeanOf(levels) == SumSeq(levels) \div Len(levels)

\* np.std(noise_levels): sqrt(n*sum(x^2) - sum(x)^2) / n, rounded down to
\* 10/Scale; the sums are taken over the unscaled energies to stay in range
StdOf(w) ==
    LET n == Len(w)
        s == SumSeq(w)
        q == SumSeq([i \in 1..n |-> w[i] * w[i]])
    IN (Scale \div (10 * n)) * ISqrt(100 * (n * q - s * s))

\* (variant: the minimum threshold is not applied)
SpeechThresholdNoFloor(avg_noise, std_noise) == avg_noise + 2 * std_noise

\* speech_threshold = max(avg_noise + std_noise * 2.0, 300)
SpeechThreshold(avg_noise, std_noise) ==
    Max(avg_noise + 2 * std_noise, MinThreshold * Scale)

\* the dictionary calibrate_audio returns
CalibratedProfile(w) ==
    LET avg_noise == MeanOf(NoiseLevelsOf(w))
        std_noise == StdOf(w)
        speech_threshold == SpeechThreshold(avg_noise, std_noise)
    IN [ambient_level |-> avg_noise,
        noise_std |-> std_noise,
        speech_threshold |-> speech_threshold,
        vad_threshold |-> (speech_threshold * 7) \div 10]

Windows == [1..CalFrames -> CalLevels]
WideWindows == [1..CalFrames -> WideCalLevels]

\* PyAudio.terminate() closes the streams its instance still holds
TerminateCloses(s) == IF s \in {"open", "stopped"} THEN "closed" ELSE s

----------------------------------------------------------------------------
(* Construction: SpeechTranslation.__init__, SpeechRecognizer.__init__ *)

loopVars == <<audio_level_history, last_partial, is_speaking, silence_frames,
              speech_frames, adaptive_threshold, raw_data, nframes, arrived,
              above_run, below_run, last_limit, was_speaking, resp,
              prev_partial, emitted, forwarded, audio_errors, partials,
              last_event>>
sessVars == <<recognized_text, translated, finals, terminations,
              used_after_release>>

\* SpeechRecognizer.__init__ up to self.selected_lang = lang
Construct(lang) ==
    /\ pc = "construct"
    /\ selected_lang' = lang
    /\ pc' = "calibrate"
    /\ UNCHANGED <<noise_level, resVars, loopVars, sessVars, error>>
    /\ UNCHANGED <<callVars, twinVars>>

\* calibrate_audio: p = PyAudio(), device info, p.open(...)
CalibrateOpen ==
    /\ pc = "calibrate"
    /\ cal_p' = "live"
    /\ cal_stream' = "open"
    /\ pc' = "cal_read"
    /\ UNCHANGED <<selected_lang, noise_level, audio, stream, loopVars,
                   sessVars, error>>
    /\ UNCHANGED <<callVars, twinVars>>

\* calibrate_audio: no input device; the finally block terminates p
CalibrateNoDevice ==
    /\ pc = "calibrate"
    /\ cal_p' = "terminated"
    /\ error' = "DeviceError"
    /\ pc' = "init_failed"
    /\ UNCHANGED <<selected_lang, noise_level, cal_stream, audio, stream,
                   loopVars, sessVars>>
    /\ UNCHANGED <<callVars, twinVars>>

\* calibrate_audio: the 8 reads succeed; statistics, stop, close, terminate
CalibrateMeasure(windows) ==
    /\ pc = "cal_read"
    /\ \E w \in windows : noise_level' = CalibratedProfile(w)
    /\ cal_stream' = "closed"
    /\ cal_p' = "terminated"
    /\ pc' = "setup_model"
    /\ UNCHANGED <<selected_lang, audio, stream, loopVars, sessVars, error>>
    /\ UNCHANGED <<callVars, twinVars>>

\* calibrate_audio: a read raises; stop_stream/close are skipped and the
\* finally block terminates p
CalibrateReadError ==
    /\ pc = "cal_read"
    /\ cal_stream' = TerminateCloses(cal_stream)
    /\ cal_p' = "terminated"
    /\ error' = "IOError"
    /\ pc' = "init_failed"
    /\ UNCHANGED <<selected_lang, noise_level, audio, stream, loopVars,
                   sessVars>>
    /\ UNCHANGED <<callVars, twinVars>>

model_paths == {"hi", "en"}

\* setup_model: the language check, the model load, self.audio = PyAudio()
SetupModel ==
    /\ pc = "setup_model"
    /\ IF selected_lang \notin model_paths
       THEN /\ error' = "ValueError"
            /\ pc' = "init_failed"
            /\ UNCHANGED audio
       ELSE /\ audio' = "live"
            /\ pc' = "translator"
            /\ UNCHANGED error
    /\ UNCHANGED <<selected_lang, noise_level, cal_p, cal_stream, stream,
                   loopVars, sessVars>>
    /\ UNCHANGED <<callVars, twinVars>>

\* setup_model: the model directory is missing
SetupModelMissing ==
    /\ pc = "setup_model"
    /\ selected_lang \in model_paths
    /\ error' = "FileNotFoundError"
    /\ pc' = "init_failed"
    /\ UNCHANGED <<selected_lang, noise_level, resVars, loopVars, sessVars>>
    /\ UNCHANGED <<callVars, twinVars>>

\* SpeechTranslation.__init__: self.translator = Translator()
TranslatorInit ==
    /\ pc = "translator"
    /\ pc' = "listen"
    /\ UNCHANGED <<selected_lang, noise_level, resVars, loopVars, sessVars,
                   error>>
    /\ UNCHANGED <<callVars, twinVars>>

\* SpeechTranslation.__init__: Translator() raises, the error is re-raised
TranslatorInitFails ==
    /\ pc = "translator"
    /\ error' = "TranslatorError"
    /\ pc' = "init_failed"
    /\ UNCHANGED <<selected_lang, noise_level, resVars, loopVars, sessVars>>
    /\ UNCHANGED <<callVars, twinVars>>

----------------------------------------------------------------------------
(* recognize_from_mic: the capture loop *)

\* (variant: a deque created without maxlen)
DequeAppendUnbounded(h, x) == Append(h, x)

\* deque(maxlen=10).append: a full deque drops its oldest entry
DequeAppend(h, x) ==
    IF Len(h) >= HistoryLen THEN Append(Tail(h), x) ELSE Append(h, x)

\* sum(audio_level_history) / len(audio_level_history)
RollingAvg(h) == SumSeq(h) \div Len(h)

\* (variant: the threshold follows the rolling average alone)
AdaptiveThresholdAvgOnly(profile, rolling_avg) == (rolling_avg * 6) \div 5

\* max(ambient_level + noise_std * 2.0, rolling_avg * 1.2)
AdaptiveThreshold(profile, rolling_avg) ==
    Max(profile.ambient_level + 2 * profile.noise_std, (rolling_avg * 6) \div 5)

\* (variant: the threshold is re-tuned on every frame)
ThresholdAlways(speaking, threshold, profile, rolling_avg) ==
    AdaptiveThreshold(profile, rolling_avg)

\* if not is_speaking: adaptive_threshold = ...
ThresholdFor(speaking, threshold, profile, rolling_avg) ==
    IF ~speaking THEN AdaptiveThreshold(profile, rolling_avg) ELSE threshold

\* (variant: no debounce)
SpeechDetectedAtOnce(frames, speaking) == frames > 0 /\ ~speaking

\* (variant: the debounce waits for one frame more)
SpeechDetectedLate(frames, speaking) == frames > DebounceFrames + 1 /\ ~speaking

\* speech_frames > 2 and not is_speaking
SpeechDetected(frames, speaking) == frames > DebounceFrames /\ ~speaking

\* (variant: the limit has no lower bound)
SilenceLimitNoFloor(rolling_avg, ambient_level) ==
    Min((rolling_avg * 10) \div ambient_level, SilenceCap)

\* min(max(5, int((rolling_avg / ambient_level) * 10)), 15), ambient_level # 0
SilenceLimit(rolling_avg, ambient_level) ==
    Min(Max(SilenceFloor, (rolling_avg * 10) \div ambient_level), SilenceCap)

\* silence_frames > silence_limit and is_speaking
PauseDetected(frames, limit, speaking) == frames > limit /\ speaking

\* the finally block: stream.stop_stream(), stream.close(), audio.terminate()
Release ==
    /\ stream' = "closed"
    /\ audio' = "terminated"
    /\ terminations' = terminations + 1

\* stream = self.audio.open(...); on a terminated handle PortAudio refuses
\* and start()'s "except Exception" resumes the listening loop
RecognizeOpen ==
    /\ pc = "listen"
    /\ IF audio = "live"
       THEN /\ stream' = "open"
            /\ pc' = "rfm_setup"
            /\ UNCHANGED <<used_after_release, error>>
       ELSE /\ used_after_release' = TRUE
            /\ error' = "OSError"
            /\ UNCHANGED <<stream, pc>>
    /\ UNCHANGED <<selected_lang, noise_level, cal_p, cal_stream, audio,
                   loopVars, recognized_text, translated, finals,
                   terminations>>
    /\ UNCHANGED <<callVars, twinVars>>

\* stream.start_stream() and the locals set up before the try block
RecognizeSetup ==
    /\ pc = "rfm_setup"
    /\ audio_level_history' = [i \in 1..HistoryLen |-> noise_level.ambient_level]
    /\ last_partial' = ""
    /\ is_speaking' = FALSE
    /\ silence_frames' = 0
    /\ speech_frames' = 0
    /\ adaptive_threshold' = noise_level.speech_threshold
    /\ raw_data' = NoFrame
    /\ nframes' = 0
    /\ arrived' = <<>>
    /\ above_run' = 0
    /\ below_run' = 0
    /\ last_limit' = 0
    /\ was_speaking' = FALSE
    /\ resp' = NoResp
    /\ prev_partial' = ""
    /\ emitted' = <<>>
    /\ forwarded' = 0
    /\ audio_errors' = 0
    /\ partials' = {}
    /\ last_event' = NoEvent
    /\ pc' = "read"
    /\ UNCHANGED <<selected_lang, noise_level, resVars, sessVars, error>>
    /\ UNCHANGED <<callVars, twinVars>>

\* a user interrupt before the try block is entered: it leaves
\* recognize_from_mic and is caught by start()
InterruptSetup ==
    /\ pc = "rfm_setup"
    /\ error' = "KeyboardInterrupt"
    /\ pc' = "stopped"
    /\ UNCHANGED <<selected_lang, noise_level, resVars, loopVars, sessVars>>
    /\ UNCHANGED <<callVars, twinVars>>

\* raw_data = stream.read(4096, exception_on_overflow=False)
ReadFrame(levels, limit) ==
    /\ pc = "read"
    /\ nframes < limit
    /\ \E e \in levels : raw_data' = e
    /\ nframes' = nframes + 1
    /\ pc' = "vad"
    /\ UNCHANGED <<selected_lang, noise_level, resVars, vadVars, last_partial,
                   vadObs, recObs, audio_errors, recognized_text, translated,
                   terminations, used_after_release, error>>
    /\ UNCHANGED <<callVars, twinVars>>

\* (variant: the handler leaves the loop instead of continuing)
ReadErrorBreaks(limit) ==
    /\ pc = "read"
    /\ audio_errors < limit
    /\ audio_errors' = audio_errors + 1
    /\ stream' = "closed"
    /\ audio' = "terminated"
    /\ terminations' = terminations + 1
    /\ pc' = "returned"
    /\ UNCHANGED <<selected_lang, noise_level, cal_p, cal_stream, vadVars,
                   last_partial, raw_data, nframes, vadObs, recObs,
                   recognized_text, translated, used_after_release, error>>
    /\ UNCHANGED <<callVars, twinVars>>

\* except IOError: print("Audio error"), continue
ReadError(limit) ==
    /\ pc = "read"
    /\ audio_errors < limit
    /\ audio_errors' = audio_errors + 1
    /\ pc' = "read"
    /\ UNCHANGED <<selected_lang, noise_level, resVars, vadVars, last_partial,
                   raw_data, nframes, vadObs, recObs, recognized_text,
                   translated, terminations, used_after_release, error>>
    /\ UNCHANGED <<callVars, twinVars>>

\* stream.read raises IOError: control enters the "except IOError" clause
ReadFails ==
    /\ pc = "read"
    /\ pc' = "audio_error"
    /\ UNCHANGED <<selected_lang, noise_level, resVars, loopVars, sessVars,
                   error, callVars, twinVars>>

\* the "except IOError" clause: print("Audio error"), continue.  The count
\* of printed lines stops at `limit`, the loop does not
AudioErrorContinue(limit) ==
    /\ pc = "audio_error"
    /\ audio_errors' = Min(audio_errors + 1, limit)
    /\ pc' = "read"
    /\ UNCHANGED <<selected_lang, noise_level, resVars, vadVars, last_partial,
                   raw_data, nframes, vadObs, recObs, recognized_text,
                   translated, terminations, used_after_release, error,
                   callVars, twinVars>>

\* process_audio, the rolling average, the adaptive threshold and the
\* speaking / silence decision for the frame just read
VadUpdate ==
    /\ pc = "vad"
    /\ LET current_level == Scale * raw_data
           history == DequeAppend(audio_level_history, current_level)
           rolling_avg == RollingAvg(history)
           threshold == ThresholdFor(is_speaking, adaptive_threshold,
                                     noise_level, rolling_avg)
           above == current_level > threshold
       IN /\ audio_level_history' = history
          /\ adaptive_threshold' = threshold
          /\ arrived' = IF Len(arrived) >= HistoryLen
                        THEN Append(Tail(arrived), current_level)
                        ELSE Append(arrived, current_level)
          /\ was_speaking' = is_speaking
          /\ above_run' = IF above THEN above_run + 1 ELSE 0
          /\ below_run' = IF above THEN 0 ELSE below_run + 1
          /\ IF above
             THEN /\ speech_frames' = speech_frames + 1
                  /\ silence_frames' = 0
                  /\ is_speaking' =
                        (is_speaking \/ SpeechDetected(speech_frames', is_speaking))
                  /\ last_limit' = 0
                  /\ pc' = "rec"
                  /\ UNCHANGED <<stream, audio, terminations, error>>
             ELSE /\ silence_frames' = silence_frames + 1
                  /\ UNCHANGED speech_frames
                  /\ IF noise_level.ambient_level = 0
                     THEN \* ZeroDivisionError, "except Exception", finally
                          /\ error' = "ZeroDivisionError"
                          /\ Release
                          /\ pc' = "returned"
                          /\ UNCHANGED <<is_speaking, last_limit>>
                     ELSE /\ last_limit' =
                               SilenceLimit(rolling_avg, noise_level.ambient_level)
                          /\ is_speaking' =
                               (is_speaking /\ ~PauseDetected(silence_frames',
                                                  last_limit', is_speaking))
                          /\ pc' = "rec"
                          /\ UNCHANGED <<stream, audio, terminations, error>>
    /\ UNCHANGED <<selected_lang, noise_level, cal_p, cal_stream, last_partial,
                   raw_data, nframes, recObs, audio_errors, recognized_text,
                   translated, used_after_release>>
    /\ UNCHANGED <<callVars, twinVars>>

Final(text) == [kind |-> "Final", text |-> text]
Partial(text) == [kind |-> "Partial", text |-> text]

\* what the recognizer may answer: AcceptWaveform's result and the text of
\* Result() or PartialResult()
Responses == [final : BOOLEAN, text : Texts \cup {""}]
QuietResponses == {[final |-> FALSE, text |-> ""]}

\* (variant: a partial is printed even when it repeats the last one)
EventsForEveryPartial(r, partial) ==
    IF r.final
    THEN IF r.text # "" THEN <<Final(r.text)>> ELSE <<>>
    ELSE IF r.text # "" THEN <<Partial(r.text)>> ELSE <<>>

\* the lines printed for the recognizer's answer r
EventsFor(r, partial) ==
    IF r.final
    THEN IF r.text # "" THEN <<Final(r.text)>> ELSE <<>>
    ELSE IF r.text # "" /\ r.text # partial THEN <<Partial(r.text)>> ELSE <<>>

\* (variant: a final result does not clear last_partial)
LastPartialKept(r, partial) ==
    IF r.final
    THEN partial
    ELSE IF r.text # "" /\ r.text # partial THEN r.text ELSE partial

\* last_partial after the recognizer's answer r
LastPartialFor(r, partial) ==
    IF r.final
    THEN IF r.text # "" THEN "" ELSE partial
    ELSE IF r.text # "" /\ r.text # partial THEN r.text ELSE partial

\* the Partial texts printed since the latest Final event, after `events`
PartialsAfter(events, seen) ==
    IF \E i \in 1..Len(events) : events[i].kind = "Final"
    THEN {}
    ELSE seen \cup {events[i].text : i \in 1..Len(events)}

\* the latest event printed, after `events`
LastEventAfter(events, last) ==
    IF events = <<>> THEN last ELSE events[Len(events)]

\* (variant: the recognizer is fed only while the VAD state is Speaking)
RecognizeWhenSpeaking(responses) ==
    /\ pc = "rec"
    /\ IF is_speaking
       THEN /\ \E r \in responses :
                 /\ resp' = r
                 /\ prev_partial' = last_partial
                 /\ emitted' = EventsFor(r, last_partial)
                 /\ last_partial' = LastPartialFor(r, last_partial)
                 /\ finals' = finals \cup {emitted'[i].text : i \in
                                 {j \in 1..Len(emitted') : emitted'[j].kind = "Final"}}
                 /\ partials' = PartialsAfter(emitted', partials)
                 /\ last_event' = LastEventAfter(emitted', last_event)
            /\ forwarded' = forwarded + 1
       ELSE UNCHANGED <<resp, prev_partial, emitted, last_partial, finals,
                        partials, last_event, forwarded>>
    /\ pc' = "read"
    /\ UNCHANGED <<selected_lang, noise_level, resVars, vadVars, raw_data,
                   nframes, vadObs, audio_errors, recognized_text, translated,
                   terminations, used_after_release, error>>
    /\ UNCHANGED <<callVars, twinVars>>

\* self.recognizer.AcceptWaveform(processed_data) and the result handling
Recognize(responses) ==
    /\ pc = "rec"
    /\ \E r \in responses :
          /\ resp' = r
          /\ prev_partial' = last_partial
          /\ emitted' = EventsFor(r, last_partial)
          /\ last_partial' = LastPartialFor(r, last_partial)
          /\ finals' = finals \cup {emitted'[i].text : i \in
                          {j \in 1..Len(emitted') : emitted'[j].kind = "Final"}}
          /\ partials' = PartialsAfter(emitted', partials)
          /\ last_event' = LastEventAfter(emitted', last_event)
    /\ forwarded' = forwarded + 1
    /\ pc' = "read"
    /\ UNCHANGED <<selected_lang, noise_level, resVars, vadVars, raw_data,
                   nframes, vadObs, audio_errors, recognized_text, translated,
                   terminations, used_after_release, error>>
    /\ UNCHANGED <<callVars, twinVars>>

\* except KeyboardInterrupt inside recognize_from_mic, then the finally block
Interrupt ==
    /\ pc \in {"read", "audio_error", "vad", "rec"}
    /\ error' = "KeyboardInterrupt"
    /\ Release
    /\ pc' = "returned"
    /\ UNCHANGED <<selected_lang, noise_level, cal_p, cal_stream, loopVars,
                   recognized_text, translated, finals, used_after_release>>
    /\ UNCHANGED <<callVars, twinVars>>

----------------------------------------------------------------------------
(* SpeechTranslation.start *)

\* recognize_from_mic has no return statement
ReturnValue == None

SourceLang(lang) == IF lang = "hi" THEN "hi" ELSE "en"
TargetLang(src) == IF src = "hi" THEN "en" ELSE "hi"

\* the locals of recognize_from_mic do not outlive the call
LocalsDiscarded ==
    /\ audio_level_history' = <<>>
    /\ last_partial' = ""
    /\ is_speaking' = FALSE
    /\ silence_frames' = 0
    /\ speech_frames' = 0
    /\ adaptive_threshold' = 0
    /\ raw_data' = NoFrame
    /\ nframes' = 0
    /\ arrived' = <<>>
    /\ above_run' = 0
    /\ below_run' = 0
    /\ last_limit' = 0
    /\ was_speaking' = FALSE
    /\ resp' = NoResp
    /\ prev_partial' = ""
    /\ emitted' = <<>>
    /\ forwarded' = 0
    /\ audio_errors' = 0
    /\ partials' = {}
    /\ last_event' = NoEvent

\* recognized_text = self.sr.recognize_from_mic(); if recognized_text: ...
AfterRecognize ==
    /\ pc = "returned"
    /\ recognized_text' = ReturnValue
    /\ translated' =
          IF recognized_text' \notin {None, ""}
          THEN translated \cup {<<recognized_text', SourceLang(selected_lang),
                                  TargetLang(SourceLang(selected_lang))>>}
          ELSE translated
    /\ LocalsDiscarded
    /\ pc' = "listen"
    /\ UNCHANGED <<selected_lang, noise_level, resVars, finals,
                   terminations, used_after_release, error>>
    /\ UNCHANGED <<callVars, twinVars>>

\* except KeyboardInterrupt in start()
StartInterrupt ==
    /\ pc \in {"listen", "returned"}
    /\ error' = "KeyboardInterrupt"
    /\ pc' = "stopped"
    /\ UNCHANGED <<selected_lang, noise_level, resVars, loopVars, sessVars>>
    /\ UNCHANGED <<callVars, twinVars>>

\* SpeechRecognizer.__del__
Del ==
    /\ pc \in {"stopped", "init_failed"}
    /\ IF audio # "none"
       THEN /\ audio' = "terminated"
            /\ stream' = TerminateCloses(stream)
            /\ terminations' = terminations + 1
       ELSE UNCHANGED <<audio, stream, terminations>>
    /\ pc' = "deleted"
    /\ UNCHANGED <<selected_lang, noise_level, cal_p, cal_stream, loopVars,
                   recognized_text, translated, finals, used_after_release,
                   error>>
    /\ UNCHANGED <<callVars, twinVars>>

----------------------------------------------------------------------------
(* Translator.translate_text *)

\* A text is a sequence of characters.
Whitespace == {" ", "\t", "\n"}

\* the texts handed to translate_text: words with blanks inside, blanks
\* only, and a text whose characters past TruncateAt differ from the rest
Words(n) == [i \in 1..n |-> IF i % 7 = 0 THEN " " ELSE IF i % 2 = 0 THEN "b" ELSE "a"]
Blanks(n) == [i \in 1..n |-> " "]
Tailed(n) == [i \in 1..n |-> IF i > TruncateAt THEN "z" ELSE "a"]
TextLens == {0, 1, TruncateAt - 1, TruncateAt, TruncateAt + 1, MaxTextLen}
TrTexts == {Words(n) : n \in TextLens} \cup {Blanks(n) : n \in TextLens}
               \cup {Tailed(n) : n \in TextLens}
TrLangs == {"en", "hi", "fr"}
\* the library call that raises during a call ("none": none does)
Failures == {"none", "tokenizer", "generate", "batch_decode"}

RECURSIVE FirstNonBlank(_, _, _)
\* index of the first non-whitespace character of t[lo..hi] (hi + 1: none),
\* found by halving the range
FirstNonBlank(t, lo, hi) ==
    IF lo > hi THEN hi + 1
    ELSE IF lo = hi THEN (IF t[lo] \in Whitespace THEN hi + 1 ELSE lo)
    ELSE LET mid == (lo + hi) \div 2
             l == FirstNonBlank(t, lo, mid)
         IN IF l <= mid THEN l
            ELSE LET r == FirstNonBlank(t, mid + 1, hi)
                 IN IF r <= hi THEN r ELSE hi + 1

RECURSIVE LastNonBlank(_, _, _)
\* index of the last non-whitespace character of t[lo..hi] (lo - 1: none)
LastNonBlank(t, lo, hi) ==
    IF lo > hi THEN lo - 1
    ELSE IF lo = hi THEN (IF t[lo] \in Whitespace THEN lo - 1 ELSE lo)
    ELSE LET mid == (lo + hi) \div 2
             r == LastNonBlank(t, mid + 1, hi)
         IN IF r > mid THEN r
            ELSE LET l == LastNonBlank(t, lo, mid)
                 IN IF l >= lo THEN l ELSE lo - 1

\* text.strip()
Strip(t) == SubSeq(t, FirstNonBlank(t, 1, Len(t)), LastNonBlank(t, 1, Len(t)))

\* not text or text.strip() == ""
IsBlank(t) == t = <<>> \/ Strip(t) = <<>>

\* src_lang == "en" and tgt_lang == "hi", or src_lang == "hi" and tgt_lang == "en"
SupportedPair(src, tgt) ==
    (src = "en" /\ tgt = "hi") \/ (src = "hi" /\ tgt = "en")

\* (variant: the last TruncateAt characters are kept)
TruncatedToTail(t) ==
    IF Len(t) > TruncateAt THEN SubSeq(t, Len(t) - TruncateAt + 1, Len(t)) ELSE t

\* if len(text) > 500: text = text[:500]
Truncated(t) == IF Len(t) > TruncateAt THEN SubSeq(t, 1, TruncateAt) ELSE t

\* the notice printed with the truncation
NoticesFor(t) == IF Len(t) > TruncateAt THEN 1 ELSE 0

NoResult == [kind |-> "none", text |-> <<>>, msg |-> ""]
\* return ""
EmptyString == [kind |-> "empty", text |-> <<>>, msg |-> ""]
\* return translated_text: the translation of t
Translation(t) == [kind |-> "translation", text |-> t, msg |-> ""]
\* return f"[Translation error: {str(e)}]"
ErrorTag(e) == [kind |-> "error", text |-> <<>>, msg |-> e]

\* (variant: the handler re-raises, as Translator.__init__ does)
ExceptHandlerReraises(e, sub, n) ==
    [submitted |-> sub, notices |-> n, returned |-> NoResult, raised |-> e]

\* except Exception as e: print, return the tagged string
ExceptHandler(e, sub, n) ==
    [submitted |-> sub, notices |-> n, returned |-> ErrorTag(e), raised |-> "none"]

\* the body of translate_text; failure names the library call that raises
TranslateOutcome(t, src, tgt, failure) ==
    IF IsBlank(t)
    THEN [submitted |-> <<>>, notices |-> 0, returned |-> EmptyString,
          raised |-> "none"]
    ELSE IF ~SupportedPair(src, tgt)
    THEN ExceptHandler("ValueError", <<>>, 0)
    ELSE IF failure # "none"
    THEN ExceptHandler(failure, <<Truncated(t)>>, NoticesFor(t))
    ELSE [submitted |-> <<Truncated(t)>>, notices |-> NoticesFor(t),
          returned |-> Translation(Truncated(t)), raised |-> "none"]

\* translate_text(text, src_lang, tgt_lang) on the arguments of the pending
\* call
TranslateText ==
    /\ tr_src # None
    /\ tr_result = NoResult /\ tr_raised = "none"
    /\ LET outcome == TranslateOutcome(tr_text, tr_src, tr_tgt, tr_failure)
       IN /\ submitted' = outcome.submitted
          /\ notices' = outcome.notices
          /\ tr_result' = outcome.returned
          /\ tr_raised' = outcome.raised
    /\ UNCHANGED <<pc, selected_lang, noise_level, resVars, loopVars, sessVars,
                   error, tr_text, tr_src, tr_tgt, tr_failure, paVars,
                   twinVars>>

\* no call of translate_text is pending or has been made
NoTranslateCall ==
    /\ tr_text = <<>>
    /\ tr_src = None
    /\ tr_tgt = None
    /\ tr_failure = "none"
    /\ submitted = <<>>
    /\ notices = 0
    /\ tr_result = NoResult
    /\ tr_raised = "none"

----------------------------------------------------------------------------
(* SpeechRecognizer.process_audio, sample by sample *)

\* A sample is an integer; every float the routine computes is an integer
\* count of 1/SampleScale units.  A gain is a fraction num/den.
SampleScale == 16
NoGain == [num |-> 0, den |-> 1]

Abs(x) == IF x >= 0 THEN x ELSE -x

\* a / c rounded toward zero
SDiv(a, c) == IF a >= 0 THEN a \div c ELSE -((-a) \div c)

RECURSIVE MulDivMod(_, _, _)
\* quotient and remainder of a * b by c (a, b >= 0, c > 0), by doubling, so
\* that no intermediate value leaves 32 bits
MulDivMod(a, b, c) ==
    IF b = 0 THEN [q |-> 0, m |-> 0]
    ELSE LET h == MulDivMod(a, b \div 2, c)
             t == 2 * h.m + (IF b % 2 = 1 THEN a % c ELSE 0)
         IN [q |-> 2 * h.q + (IF b % 2 = 1 THEN a \div c ELSE 0) + t \div c,
             m |-> t % c]

\* a * b / c rounded toward zero
MulDiv(a, b, c) ==
    LET r == MulDivMod(Abs(a), Abs(b), c).q
    IN IF (a < 0) # (b < 0) THEN -r ELSE r

\* signal.butter(3, 0.05): b = (0.00041655, 0.00124964, 0.00124964,
\* 0.00041655), a = (1, -2.68615740, 2.41965511, -0.73016535), in units of
\* 1/CoefScale
CoefScale == 2 ^ 20
ButterB == <<437, 1310, 1310, 437>>
ButterA == <<1048576, -2816640, 2537192, -765634>>

Tap(s, n) == IF n >= 1 THEN s[n] ELSE 0

\* y[n] = b0 x[n] + b1 x[n-1] + b2 x[n-2] + b3 x[n-3]
\*           - a1 y[n-1] - a2 y[n-2] - a3 y[n-3]
FilterStep(x, y, n) ==
    SDiv((ButterB[1] * Tap(x, n) + ButterB[2] * Tap(x, n - 1)
            + ButterB[3] * Tap(x, n - 2) + ButterB[4] * Tap(x, n - 3))
               * SampleScale, CoefScale)
      - MulDiv(Tap(y, n - 1), ButterA[2], CoefScale)
      - MulDiv(Tap(y, n - 2), ButterA[3], CoefScale)
      - MulDiv(Tap(y, n - 3), ButterA[4], CoefScale)

RECURSIVE LFilter(_, _)
LFilter(x, y) ==
    IF Len(y) >= Len(x) THEN y
    ELSE LFilter(x, Append(y, FilterStep(x, y, Len(y) + 1)))

\* signal.lfilter(b, a, audio_array)
LowPass(x) == LFilter(x, <<>>)

RECURSIVE NoiseFold(_, _)
\* calibrate_audio: noise_profile = |frame 1|, then (noise_profile + |frame k|) / 2,
\* every sample of calibration frame k having magnitude w[k]
NoiseFold(w, k) ==
    IF k = 1 THEN SampleScale * w[1]
    ELSE (NoiseFold(w, k - 1) + SampleScale * w[k]) \div 2

NoiseProfileOf(w) == [i \in 1..FrameLen |-> NoiseFold(w, Len(w))]

\* the attributes of a dict object: its methods, never its keys
DictAttributes == {"clear", "copy", "fromkeys", "get", "items", "keys", "pop",
                   "popitem", "setdefault", "update", "values"}
\* hasattr(self.noise_level, name), self.noise_level being a dict
HasAttr(name) == name \in DictAttributes

\* hasattr(self.noise_level, 'noise_profile')
\*    and self.noise_level['noise_profile'] is not None
ProfileApplies(profile) == HasAttr("noise_profile") /\ profile # <<>>

\* np.maximum(audio_array - (noise_estimate * 0.5), 0)
SpectralSubtraction(f, noise_estimate) ==
    [i \in 1..Len(f) |-> Max(f[i] - noise_estimate[i] \div 2, 0)]

RECURSIVE PeakFrom(_, _)
PeakFrom(f, n) == IF n = 0 THEN 0 ELSE Max(Abs(f[n]), PeakFrom(f, n - 1))

\* np.abs(filtered_audio).max()
Peak(f) == PeakFrom(f, Len(f))

\* (variant: the gain is 3.0 whatever the peak)
NormFactorFixed(peak) == [num |-> GainCap, den |-> 1]

\* min(32767 / peak, 3.0) when peak > 0; without a peak the signal is not
\* multiplied
NormFactor(peak) ==
    IF peak > 0
    THEN IF Int16Max * SampleScale < GainCap * peak
         THEN [num |-> Int16Max * SampleScale, den |-> peak]
         ELSE [num |-> GainCap, den |-> 1]
    ELSE [num |-> 1, den |-> 1]

\* filtered_audio * norm_factor, one sample
Normalized(v, gain) == MulDiv(v, gain.num, gain.den)

\* np.int16(x), one sample: the fraction is dropped; a value out of range
\* wraps modulo 2^16
Int16(v) ==
    LET t == SDiv(v, SampleScale)
    IN ((t + 2 ^ 15) % 2 ^ 16) - 2 ^ 15

\* the frames handed to process_audio: five shapes at nine amplitudes
Amplitudes == {-32768, -12000, -1000, -1, 0, 1, 1000, 12000, 32767}
Flat(v) == [i \in 1..FrameLen |-> v]
Onset(v) == [i \in 1..FrameLen |-> IF 2 * i > FrameLen THEN v ELSE 0]
Swing(v) == [i \in 1..FrameLen |-> IF 4 * i > FrameLen THEN v ELSE -v - 1]
Buzz(v) == [i \in 1..FrameLen |-> IF i % 2 = 0 THEN v ELSE -v - 1]
Click(v) == [i \in 1..FrameLen |-> IF i = 1 THEN v ELSE 0]
PaFrames == {Flat(v) : v \in Amplitudes} \cup {Onset(v) : v \in Amplitudes}
               \cup {Swing(v) : v \in Amplitudes} \cup {Buzz(v) : v \in Amplitudes}
               \cup {Click(v) : v \in Amplitudes}

\* process_audio(audio_data) on the frame of the pending call
ProcessAudio ==
    /\ audio_array # <<>>
    /\ processed_audio = <<>>
    /\ lowpassed' = LowPass(audio_array)
    /\ filtered_audio' = IF ProfileApplies(noise_profile)
                         THEN SpectralSubtraction(lowpassed', noise_profile)
                         ELSE lowpassed'
    /\ norm_factor' = NormFactor(Peak(filtered_audio'))
    /\ processed_audio' =
          [i \in 1..Len(filtered_audio') |->
              Int16(Normalized(filtered_audio'[i], norm_factor'))]
    /\ UNCHANGED <<pc, selected_lang, noise_level, resVars, loopVars, sessVars,
                   error, trVars, noise_profile, audio_array, twinVars>>

\* no call of process_audio is pending or has been made
NoProcessCall ==
    /\ noise_profile = <<>>
    /\ audio_array = <<>>
    /\ lowpassed = <<>>
    /\ filtered_audio = <<>>
    /\ norm_factor = NoGain
    /\ processed_audio = <<>>

----------------------------------------------------------------------------
\* Two runs of the capture loop side by side.  The second run is given the
\* frame the first run has just read and the answer the recognizer has just
\* given, and differs from the first only in the profile calibrate_audio
\* returned to it.

\* no second run
NoTwin ==
    /\ twin_level = NoProfile
    /\ twin_history = <<>>
    /\ twin_speaking = FALSE
    /\ twin_silence_frames = 0
    /\ twin_speech_frames = 0
    /\ twin_threshold = 0
    /\ twin_last_partial = ""
    /\ twin_emitted = <<>>
    /\ twin_frames = 0

\* the locals of recognize_from_mic in the second run, after a calibration
\* that measured another window
TwinEntered ==
    /\ \E w \in VadWindows : twin_level = CalibratedProfile(w)
    /\ twin_level # noise_level
    /\ twin_history = [i \in 1..HistoryLen |-> twin_level.ambient_level]
    /\ twin_speaking = FALSE
    /\ twin_silence_frames = 0
    /\ twin_speech_frames = 0
    /\ twin_threshold = twin_level.speech_threshold
    /\ twin_last_partial = ""
    /\ twin_emitted = <<>>
    /\ twin_frames = 0

\* one iteration of the while loop in the second run: the level of the frame,
\* the threshold, the VAD counters, and then the recognizer's answer
TwinFrame ==
    /\ pc = "read"
    /\ twin_level # NoProfile
    /\ twin_level.ambient_level > 0
    /\ twin_frames < forwarded
    /\ LET current_level == Scale * raw_data
           history == DequeAppend(twin_history, current_level)
           rolling_avg == RollingAvg(history)
           threshold == ThresholdFor(twin_speaking, twin_threshold,
                                     twin_level, rolling_avg)
           above == current_level > threshold
       IN /\ twin_history' = history
          /\ twin_threshold' = threshold
          /\ IF above
             THEN /\ twin_speech_frames' = twin_speech_frames + 1
                  /\ twin_silence_frames' = 0
                  /\ twin_speaking' =
                        (twin_speaking
                           \/ SpeechDetected(twin_speech_frames', twin_speaking))
             ELSE /\ twin_silence_frames' = twin_silence_frames + 1
                  /\ UNCHANGED twin_speech_frames
                  /\ twin_speaking' =
                        (twin_speaking
                           /\ ~PauseDetected(twin_silence_frames',
                                 SilenceLimit(rolling_avg,
                                              twin_level.ambient_level),
                                 twin_speaking))
    /\ twin_emitted' = EventsFor(resp, twin_last_partial)
    /\ twin_last_partial' = LastPartialFor(resp, twin_last_partial)
    /\ twin_frames' = twin_frames + 1
    /\ UNCHANGED <<pc, selected_lang, noise_level, resVars, vadVars,
                   last_partial, raw_data, nframes, vadObs, recObs,
                   audio_errors, recognized_text,
                   translated, terminations, used_after_release, error,
                   twin_level>>
    /\ UNCHANGED callVars

----------------------------------------------------------------------------
(* Specifications *)

\* no SpeechTranslation has been constructed
NotConstructed ==
    /\ pc = "construct"
    /\ selected_lang = None
    /\ noise_level = NoProfile
    /\ cal_p = "none"
    /\ cal_stream = "none"
    /\ audio = "none"
    /\ stream = "none"
    /\ audio_level_history = <<>>
    /\ last_partial = ""
    /\ is_speaking = FALSE
    /\ silence_frames = 0
    /\ speech_frames = 0
    /\ adaptive_threshold = 0
    /\ raw_data = NoFrame
    /\ recognized_text = None
    /\ translated = {}
    /\ error = "none"
    /\ nframes = 0
    /\ arrived = <<>>
    /\ above_run = 0
    /\ below_run = 0
    /\ last_limit = 0
    /\ was_speaking = FALSE
    /\ resp = NoResp
    /\ prev_partial = ""
    /\ emitted = <<>>
    /\ finals = {}
    /\ forwarded = 0
    /\ audio_errors = 0
    /\ terminations = 0
    /\ used_after_release = FALSE
    /\ partials = {}
    /\ last_event = NoEvent

Init == NotConstructed /\ NoTranslateCall /\ NoProcessCall /\ NoTwin

Next ==
    \/ \E lang \in Langs : Construct(lang)
    \/ CalibrateOpen
    \/ CalibrateNoDevice
    \/ CalibrateMeasure(Windows)
    \/ CalibrateReadError
    \/ SetupModel
    \/ SetupModelMissing
    \/ TranslatorInit
    \/ TranslatorInitFails
    \/ RecognizeOpen
    \/ RecognizeSetup
    \/ InterruptSetup
    \/ ReadFrame(FrameLevels, MaxFrames)
    \/ ReadError(MaxAudioErrors)
    \/ VadUpdate
    \/ Recognize(Responses)
    \/ Interrupt
    \/ AfterRecognize
    \/ StartInterrupt
    \/ Del

Spec == Init /\ [][Next]_vars

\* The capture loop alone, entered after a construction that calibrated on
\* one of VadWindows: the state RecognizeSetup leaves
LoopEntered ==
    /\ pc = "read"
    /\ selected_lang = "hi"
    /\ \E w \in VadWindows : noise_level = CalibratedProfile(w)
    /\ cal_p = "terminated"
    /\ cal_stream = "closed"
    /\ audio = "live"
    /\ stream = "open"
    /\ audio_level_history = [i \in 1..HistoryLen |-> noise_level.ambient_level]
    /\ last_partial = ""
    /\ is_speaking = FALSE
    /\ silence_frames = 0
    /\ speech_frames = 0
    /\ adaptive_threshold = noise_level.speech_threshold
    /\ raw_data = NoFrame
    /\ recognized_text = None
    /\ translated = {}
    /\ error = "none"
    /\ nframes = 0
    /\ arrived = <<>>
    /\ above_run = 0
    /\ below_run = 0
    /\ last_limit = 0
    /\ was_speaking = FALSE
    /\ resp = NoResp
    /\ prev_partial = ""
    /\ emitted = <<>>
    /\ finals = {}
    /\ forwarded = 0
    /\ audio_errors = 0
    /\ terminations = 0
    /\ used_after_release = FALSE
    /\ partials = {}
    /\ last_event = NoEvent

InitVAD == LoopEntered /\ NoTranslateCall /\ NoProcessCall /\ NoTwin

NextVAD ==
    \/ ReadFrame(VadLevels, MaxVadFrames)
    \/ ReadError(MaxAudioErrors)
    \/ VadUpdate
    \/ Recognize(QuietResponses)
    \/ Interrupt

SpecVAD == InitVAD /\ [][NextVAD]_vars

\* The construction alone, over a wider choice of calibration windows
NextCal ==
    \/ \E lang \in Langs : Construct(lang)
    \/ CalibrateOpen
    \/ CalibrateNoDevice
    \/ CalibrateMeasure(WideWindows)
    \/ CalibrateReadError
    \/ SetupModel
    \/ SetupModelMissing
    \/ TranslatorInit
    \/ TranslatorInitFails
    \/ Del

SpecCal == Init /\ [][NextCal]_vars

\* Two runs of the capture loop on the same frames and the same recognizer
\* answers, each after its own calibration; the first run reads the next
\* frame once the second has caught up.
InitPair == LoopEntered /\ NoTranslateCall /\ NoProcessCall /\ TwinEntered

NextPair ==
    \/ (twin_frames = forwarded /\ ReadFrame(VadLevels, MaxPairFrames))
    \/ (twin_frames = forwarded /\ ReadFails)
    \/ AudioErrorContinue(MaxAudioErrors)
    \/ VadUpdate
    \/ Recognize(Responses)
    \/ TwinFrame

SpecPair == InitPair /\ [][NextPair]_vars

\* The capture loop on loud and mute frames
NextLow ==
    \/ ReadFrame(LowLevels, MaxLowFrames)
    \/ ReadError(MaxAudioErrors)
    \/ VadUpdate
    \/ Recognize(QuietResponses)
    \/ Interrupt

SpecLow == InitVAD /\ [][NextLow]_vars

\* The capture loop fed the frames of the scenario, after a calibration on
\* ScenarioWindow; the recognizer answers freely
InitScn == InitVAD /\ noise_level = CalibratedProfile(ScenarioWindow)

NextScn ==
    \/ ReadFrame(ScenarioFrame(nframes + 1), Len(ScenarioFrames))
    \/ ReadError(MaxAudioErrors)
    \/ VadUpdate
    \/ Recognize(Responses)
    \/ Interrupt

SpecScn == InitScn /\ [][NextScn]_vars

\* The capture loop on a device that delivers at most MaxDevFrames frames;
\* a read that fails is retried without limit.  The interpreter keeps
\* running the loop; the user need not interrupt it
LoopStep ==
    \/ ReadFrame(VadLevels, MaxDevFrames)
    \/ ReadFails
    \/ AudioErrorContinue(MaxAudioErrors)
    \/ VadUpdate
    \/ Recognize(QuietResponses)

NextDev ==
    \/ ReadFrame(VadLevels, MaxDevFrames)
    \/ ReadFails
    \/ AudioErrorContinue(MaxAudioErrors)
    \/ VadUpdate
    \/ Recognize(QuietResponses)
    \/ Interrupt

SpecDev == InitVAD /\ [][NextDev]_vars /\ WF_vars(LoopStep)

\* process_audio alone: one call in a capture loop, the frame drawn at the
\* start, the noise estimate taken from the calibration window
InitPA ==
    /\ LoopEntered
    /\ NoTranslateCall
    /\ NoTwin
    /\ \E w \in VadWindows : /\ noise_level = CalibratedProfile(w)
                             /\ noise_profile = NoiseProfileOf(w)
    /\ audio_array \in PaFrames
    /\ lowpassed = <<>>
    /\ filtered_audio = <<>>
    /\ norm_factor = NoGain
    /\ processed_audio = <<>>

NextPA == ProcessAudio

SpecPA == InitPA /\ [][NextPA]_vars

\* Translator.translate_text alone: one call on a constructed Translator,
\* its arguments and the failing library call drawn at the start
InitTr ==
    /\ NotConstructed
    /\ NoProcessCall
    /\ NoTwin
    /\ tr_text \in TrTexts
    /\ tr_src \in TrLangs
    /\ tr_tgt \in TrLangs
    /\ tr_failure \in Failures
    /\ submitted = <<>>
    /\ notices = 0
    /\ tr_result = NoResult
    /\ tr_raised = "none"

NextTr == TranslateText

SpecTr == InitTr /\ [][NextTr]_vars

----------------------------------------------------------------------------
(* Properties *)

InLoop == pc \in {"read", "vad", "rec"}
Calibrated == noise_level # NoProfile

\* C1: with ambient_level > 0, after 3 consecutive above-threshold frames the
\* state is Speaking; after a run of below-threshold frames longer than the
\* silence limit of its last frame, and after any run of 16, it is Silence.
C1_VadTransitions ==
    (Calibrated /\ noise_level.ambient_level > 0) =>
        /\ above_run >= DebounceFrames + 1 => is_speaking
        /\ (below_run > 0 /\ below_run > last_limit) => ~is_speaking
        /\ below_run >= SilenceCap + 1 => ~is_speaking

\* C1 witness: the 16th below-threshold frame in a row ends Speaking
C1_Witness ==
    /\ noise_level.ambient_level > 0
    /\ was_speaking /\ ~is_speaking
    /\ below_run = SilenceCap + 1
    /\ last_limit = SilenceCap

\* C2 (as claimed): the state turns from Silence to Speaking only on a frame
\* that is at least the third above-threshold frame of the current run.
C2_DebouncedEveryUtterance ==
    (~was_speaking /\ is_speaking) => above_run >= DebounceFrames + 1

\* C3 (as claimed): a final result, whatever its text, prints exactly one
\* Final(text) event and leaves last_partial empty.
C3_FinalAlwaysEmitted ==
    resp.final => (emitted = <<Final(resp.text)>> /\ last_partial = "")

\* C3 (amended): a final result with non-empty text prints exactly one
\* Final(text) event and leaves last_partial empty; a final result with empty
\* text prints nothing and leaves last_partial as it was.
C3_FinalNonEmptyEmitted ==
    resp.final =>
        IF resp.text # ""
        THEN emitted = <<Final(resp.text)>> /\ last_partial = ""
        ELSE emitted = <<>> /\ last_partial = prev_partial

\* C3 witness: a final "hello" arrives while a partial is remembered
C3_Witness ==
    /\ resp = [final |-> TRUE, text |-> "hello"]
    /\ prev_partial = "namaste"
    /\ emitted = <<Final("hello")>>
    /\ last_partial = ""

\* C4 (as claimed): once start() is past the call of recognize_from_mic and
\* its "if recognized_text" block, every Final text of the session has been
\* handed to translate_text with the session's language pair.
C4_FinalsTranslated ==
    pc = "listen" =>
        \A t \in finals :
            <<t, SourceLang(selected_lang),
              TargetLang(SourceLang(selected_lang))>> \in translated

Released(s) == s \in {"none", "closed"}

\* C5 (as claimed): outside calibrate_audio its stream is released, and
\* outside recognize_from_mic its stream is released.
C5_StreamsReleasedOnReturn ==
    /\ pc # "cal_read" => Released(cal_stream)
    /\ pc \notin {"rfm_setup", "read", "vad", "rec"} => Released(stream)

\* C6 (as claimed): when construction fails on the language code, no PyAudio
\* instance and no stream has been opened.
C6_ConfigErrorBeforeAudio ==
    error = "ValueError" =>
        (cal_p = "none" /\ cal_stream = "none" /\ audio = "none" /\ stream = "none")

\* C7: a step that prints "Audio error" stays at the read, keeps the stream
\* and the handle, and changes neither the VAD state, the history, the
\* last-seen partial nor what was forwarded to the recognizer.
C7_ReadErrorSkipsFrame ==
    [][audio_errors' = audio_errors + 1 =>
         /\ pc' = "read"
         /\ stream' = "open" /\ audio' = "live"
         /\ UNCHANGED <<is_speaking, adaptive_threshold, speech_frames,
                        silence_frames, audio_level_history, last_partial,
                        forwarded, nframes>>]_vars

\* C7 witness: an audio error was printed in a loop that is still running
\* with a VAD state and a partial worth keeping
C7_Witness ==
    /\ audio_errors > 0
    /\ pc = "read"
    /\ forwarded > 0
    /\ speech_frames > 0
    /\ last_partial # ""

\* C8 (as claimed): with ambient_level = 0 a below-threshold frame is
\* processed without a division by zero and the loop keeps running.
C8_NoDivisionByZero ==
    (Calibrated /\ noise_level.ambient_level = 0 /\ below_run > 0) =>
        error # "ZeroDivisionError"

\* C9: the history never holds more than 10 entries, and its newest
\* min(k, 10) entries are the k most recent frame energies in arrival order.
C9_HistoryIsRecentFrames ==
    /\ Len(audio_level_history) <= HistoryLen
    /\ LET k == Min(Len(arrived), HistoryLen)
           n == Len(audio_level_history)
       IN /\ k <= n
          /\ \A i \in 1..k :
                audio_level_history[n - k + i] = arrived[Len(arrived) - k + i]

\* C9 witness: more than 10 frames processed, so calibration entries and
\* early frames have been evicted, and the history holds differing energies
C9_Witness ==
    /\ nframes > HistoryLen + 1
    /\ pc = "rec"
    /\ audio_level_history = arrived
    /\ audio_level_history[1] # audio_level_history[HistoryLen]

\* C10: the calibrated speech_threshold is max(ambient + 2*std, 300), hence
\* at least 300.
C10_ThresholdFloor ==
    Calibrated =>
        /\ noise_level.speech_threshold >= MinThreshold * Scale
        /\ noise_level.speech_threshold =
              Max(noise_level.ambient_level + 2 * noise_level.noise_std,
                  MinThreshold * Scale)

\* C10 witness: an all-zero calibration window gets the floor
C10_Witness ==
    /\ Calibrated
    /\ noise_level.ambient_level = 0
    /\ noise_level.speech_threshold = MinThreshold * Scale

CalledTranslate == tr_result # NoResult \/ tr_raised # "none"

\* C11: a call of translate_text raises nothing and returns a string: "" for
\* blank text; otherwise the tagged error string when the pair is unsupported
\* (ValueError) or a library call failed, and the translation when not.
C11_TranslateNeverRaises ==
    CalledTranslate =>
        /\ tr_raised = "none"
        /\ tr_result.kind \in {"empty", "translation", "error"}
        /\ IF IsBlank(tr_text)
           THEN tr_result = EmptyString
           ELSE IF ~SupportedPair(tr_src, tr_tgt)
           THEN tr_result = ErrorTag("ValueError")
           ELSE IF tr_failure # "none"
           THEN tr_result = ErrorTag(tr_failure)
           ELSE tr_result.kind = "translation"

\* C11 witness: en->en on a real text came back as the tagged error string
C11_Witness ==
    /\ tr_src = "en" /\ tr_tgt = "en"
    /\ Len(tr_text) > 1 /\ ~IsBlank(tr_text)
    /\ tr_result = ErrorTag("ValueError")
    /\ tr_raised = "none"

\* C12 (as claimed): with a supported pair, text longer than 500 characters
\* is submitted as its first 500 characters with one truncation notice, and
\* text of at most 500 characters is submitted unchanged with no notice.
C12_TruncatedTo500 ==
    (CalledTranslate /\ SupportedPair(tr_src, tr_tgt)) =>
        IF Len(tr_text) > TruncateAt
        THEN /\ Len(submitted) = 1
             /\ Len(submitted[1]) = TruncateAt
             /\ \A i \in 1..TruncateAt : submitted[1][i] = tr_text[i]
             /\ notices = 1
        ELSE submitted = <<tr_text>> /\ notices = 0

\* C12 (amended): the same for text that is not blank; blank text (empty or
\* whitespace only) of any length is not submitted and prints no notice.
C12_NonBlankTruncatedTo500 ==
    (CalledTranslate /\ SupportedPair(tr_src, tr_tgt)) =>
        IF IsBlank(tr_text)
        THEN submitted = <<>> /\ notices = 0
        ELSE IF Len(tr_text) > TruncateAt
        THEN /\ Len(submitted) = 1
             /\ Len(submitted[1]) = TruncateAt
             /\ \A i \in 1..TruncateAt : submitted[1][i] = tr_text[i]
             /\ notices = 1
        ELSE submitted = <<tr_text>> /\ notices = 0

\* C12 witness: a text of 501 characters lost its last character, which
\* differs from all the characters kept
C12_Witness ==
    /\ SupportedPair(tr_src, tr_tgt)
    /\ Len(tr_text) = TruncateAt + 1
    /\ tr_text[TruncateAt + 1] = "z"
    /\ Len(submitted) = 1
    /\ Len(submitted[1]) = TruncateAt
    /\ \A i \in 1..TruncateAt : submitted[1][i] = "a"
    /\ notices = 1
    /\ tr_result.kind = "translation"

\* C13 (as claimed): when a user interrupt has ended the capture loop, every
\* frame that updated the VAD state and the history has also been handed to
\* the recognizer and had its answer handled.
C13_InterruptAtFrameBoundary ==
    (pc = "returned" /\ error = "KeyboardInterrupt") => forwarded = Len(arrived)

\* C14 (as claimed): if from some point on no read delivers a frame, the
\* capture loop eventually has exited with its stream and its audio handle
\* released.
C14_DeadDeviceLoopExits ==
    <>[](pc # "vad") =>
        <>(pc = "returned" /\ Released(stream) /\ audio = "terminated")

\* exactly n frames have been read and classified in the running loop
Classified(n) == nframes = n /\ pc \in {"rec", "read"}

\* C15: calibrated at ambient 100, deviation 20, threshold 300, the frames
\* 310, 320, 330 leave the state Speaking, the third being the one that
\* switches it; the 16 frames of energy 50 that follow leave it Silence.
C15_Scenario ==
    /\ noise_level.ambient_level = 100 * Scale
    /\ noise_level.noise_std = 20 * Scale
    /\ noise_level.speech_threshold = MinThreshold * Scale
    /\ Classified(2) => ~is_speaking
    /\ Classified(3) => is_speaking
    /\ (Classified(3) /\ pc = "rec") => ~was_speaking
    /\ Classified(Len(ScenarioFrames)) => ~is_speaking

\* C15 witness: the last frame of the scenario has been classified, after
\* three loud frames, and the state is Silence
C15_Witness ==
    /\ Classified(Len(ScenarioFrames))
    /\ pc = "rec"
    /\ speech_frames = 3
    /\ below_run = SilenceCap + 1
    /\ ~is_speaking

\* C16: a frame classified while Speaking leaves adaptive_threshold as it
\* was; a frame classified while Silence sets it to
\* max(ambient_level + 2*noise_std, 1.2 * rolling_avg), rolling_avg being the
\* mean of the history whose newest entry is that frame.
C16_ThresholdRetunedInSilenceOnly ==
    [][(pc = "vad" /\ pc' = "rec") =>
          /\ audio_level_history'[Len(audio_level_history')] = Scale * raw_data
          /\ IF is_speaking
             THEN adaptive_threshold' = adaptive_threshold
             ELSE adaptive_threshold' =
                     Max(noise_level.ambient_level + 2 * noise_level.noise_std,
                         (6 * (SumSeq(audio_level_history')
                                  \div Len(audio_level_history'))) \div 5)]_vars

\* C16 witness: a frame was classified while Speaking and the threshold
\* kept differs from what a re-tuning on the history would have set
C16_Witness ==
    /\ pc = "rec"
    /\ was_speaking /\ is_speaking
    /\ adaptive_threshold #
          Max(noise_level.ambient_level + 2 * noise_level.noise_std,
              (6 * (SumSeq(audio_level_history)
                       \div Len(audio_level_history))) \div 5)

\* the step that handles the recognizer's answer for a frame prints a
\* Partial event exactly when the answer is not final and its text is
\* non-empty and differs from last_partial; last_partial then is that text
PartialRule ==
    forwarded' = forwarded + 1 =>
        LET due == ~resp'.final /\ resp'.text # "" /\ resp'.text # last_partial
        IN /\ due => (emitted' = <<Partial(resp'.text)>>
                         /\ last_partial' = resp'.text)
           /\ ~due => \A i \in 1..Len(emitted') : emitted'[i].kind # "Partial"

\* C17 (as claimed): PartialRule, and a Partial event never carries a text
\* that a Partial event since the latest Final event has carried.
C17_PartialsNeverRepeat ==
    [][/\ PartialRule
       /\ forwarded' = forwarded + 1 =>
             \A i \in 1..Len(emitted') :
                emitted'[i].kind = "Partial" => emitted'[i].text \notin partials]_vars

\* C17 (amended): PartialRule, and a Partial event never carries the text of
\* the event printed just before it when that event is a Partial too.
C17_ConsecutivePartialsDiffer ==
    [][/\ PartialRule
       /\ forwarded' = forwarded + 1 =>
             \A i \in 1..Len(emitted') :
                emitted'[i].kind = "Partial" => emitted'[i] # last_event]_vars

\* C17 witness: Partial("namaste") was printed right after Partial("hello")
C17_Witness ==
    /\ emitted = <<Partial("namaste")>>
    /\ prev_partial = "hello"
    /\ last_partial = "namaste"
    /\ partials = {"hello", "namaste"}

Processed == processed_audio # <<>>

\* C18 (as claimed): with a noise estimate in the profile, the samples that
\* are normalized are max(lowpassed - 0.5 * noise_profile, 0), and no sample
\* returned is negative.
C18_NoiseSubtracted ==
    (Processed /\ noise_profile # <<>>) =>
        /\ \A i \in 1..Len(filtered_audio) :
              filtered_audio[i] = Max(lowpassed[i] - noise_profile[i] \div 2, 0)
        /\ \A i \in 1..Len(processed_audio) : processed_audio[i] >= 0

\* C19: the gain is min(32767 / peak, 3.0) when the peak is above 0 and the
\* samples are not multiplied when it is 0; every sample returned lies in
\* -32767..32767 and is the normalized sample with its fraction dropped.
C19_NormalizedWithinInt16 ==
    Processed =>
        LET peak == Peak(filtered_audio)
        IN /\ peak = 0 => (norm_factor = [num |-> 1, den |-> 1]
                              /\ \A i \in 1..Len(processed_audio) :
                                    processed_audio[i] = 0)
           /\ (peak > 0 /\ GainCap * peak <= Int16Max * SampleScale) =>
                  norm_factor = [num |-> GainCap, den |-> 1]
           /\ (peak > 0 /\ GainCap * peak > Int16Max * SampleScale) =>
                  norm_factor = [num |-> Int16Max * SampleScale, den |-> peak]
           /\ \A i \in 1..Len(processed_audio) :
                 /\ processed_audio[i] \in -Int16Max..Int16Max
                 /\ processed_audio[i] =
                       SDiv(MulDiv(filtered_audio[i], norm_factor.num,
                                   norm_factor.den), SampleScale)

\* C19 witness: the filter overshot the int16 range on a full-scale frame,
\* the gain is below 1 and the loudest sample returned is 32767
C19_Witness ==
    /\ Processed
    /\ Peak(filtered_audio) > Int16Max * SampleScale
    /\ norm_factor.den = Peak(filtered_audio)
    /\ \E i \in 1..Len(processed_audio) : processed_audio[i] = Int16Max

\* C20: a silence limit, when computed, lies in 5..15; an above-threshold
\* frame leaves silence_frames 0, so silence_frames counts the
\* below-threshold frames in a row; the frame that turns Speaking into
\* Silence has silence_frames above its limit and is at least the sixth
\* below-threshold frame in a row.
C20_SilenceNeedsSixFrames ==
    (Calibrated /\ noise_level.ambient_level > 0) =>
        /\ last_limit # 0 => last_limit \in SilenceFloor..SilenceCap
        /\ above_run > 0 => silence_frames = 0
        /\ silence_frames = below_run
        /\ (was_speaking /\ ~is_speaking) =>
              /\ silence_frames > last_limit
              /\ below_run >= SilenceFloor + 1

\* C20 witness: Speaking ended on the sixth mute frame in a row, the rolling
\* average being so low that only the floor of 5 kept the limit up
C20_Witness ==
    /\ was_speaking /\ ~is_speaking
    /\ below_run = SilenceFloor + 1
    /\ last_limit = SilenceFloor
    /\ (RollingAvg(audio_level_history) * 10) \div noise_level.ambient_level
          < SilenceFloor

\* C21 (as claimed): no stream is opened on self.audio after it has been
\* terminated, and self.audio is terminated at most once.
C21_NoUseAfterRelease ==
    ~used_after_release /\ terminations <= 1


\* C22: every frame read is handed to the recognizer exactly once before the
\* next one is read, whatever the VAD state, and two runs on the same frames
\* and recognizer answers with different calibrated profiles print the same
\* Partial/Final events.
C22_VadDoesNotGateRecognition ==
    /\ (pc = "read" => forwarded = nframes)
    /\ (pc \in {"vad", "rec"} => forwarded = nframes - 1)
    /\ (twin_frames = forwarded /\ forwarded > 0 =>
           /\ twin_emitted = emitted
           /\ twin_last_partial = last_partial)

\* both runs have handled the same frames, their VAD states differ, and they
\* have printed the same event
C22_Witness ==
    /\ twin_level # noise_level
    /\ twin_frames = forwarded
    /\ forwarded = MaxPairFrames
    /\ is_speaking # twin_speaking
    /\ emitted # <<>>
    /\ twin_emitted = emitted

\* C23: the threshold a frame is classified against is never below
\* ambient_level + 2 * noise_std, and whenever it was set outside speech it is
\* the larger of that sum and 1.2 times the rolling average, with no regard to
\* the calibrated speech_threshold.
C23_ThresholdFloorIsNoiseBand ==
    LET band == noise_level.ambient_level + 2 * noise_level.noise_std
    IN /\ adaptive_threshold >= band
       /\ (Len(arrived) > 0 /\ ~was_speaking =>
             adaptive_threshold =
                Max(band, (RollingAvg(audio_level_history) * 6) \div 5))

\* the calibration raised speech_threshold to the floor of 300, and the first
\* frame has been classified against a lower threshold
C23_Witness ==
    /\ nframes = 1
    /\ pc = "rec"
    /\ noise_level.ambient_level > 0
    /\ noise_level.speech_threshold = MinThreshold * Scale
    /\ noise_level.ambient_level + 2 * noise_level.noise_std
          < MinThreshold * Scale
    /\ adaptive_threshold < noise_level.speech_threshold

====
